---------------------------- MODULE Spec2Model ----------------------------
(***************************************************************************)
(* Translation orchestration of src/csv_editor.py (class CSVEditorWindow): *)
(* the provider configuration, translate_text with its retry loop around   *)
(* _translate_text_core, the translation log and the circuit breaker.      *)
(*                                                                         *)
(* The program is single-threaded: a translate_text call runs to its end   *)
(* before the host can do anything else.  A call is cut into steps at the  *)
(* provider invocations, the only points where the outside world answers.  *)
(***************************************************************************)
EXTENDS Naturals, Integers, Sequences, FiniteSets, TLC

(***************************************************************************)
(* Bounds of the model.                                                    *)
(***************************************************************************)
MaxCfgLen == 2       \* longest service list read from config.json
MaxRetry == 2        \* largest retry_count
MaxCalls == 1        \* translate_text calls in one run
MaxSaves == 1        \* configuration dialogs accepted in one run
MaxThreshold == 2    \* largest circuit_breaker_threshold
MaxCooldown == 2     \* largest circuit_breaker_timeout
MaxFailures == 2     \* failures recorded per endpoint
MaxTime == 2         \* last clock value
MaxAppends == 1002   \* log_translation calls between two clears
MaxBatch == 30       \* log_translation calls in one run of them
MaxRetryWaits == 6   \* largest retry_count where the waits are looked at
MaxItems == 3        \* longest batch with empty cells in it
MaxWork == 6         \* items * retry_count * services of the longest batch
MaxLogged == 3       \* entries logged between two clears when reports are made

(***************************************************************************)
(* Program constants.                                                      *)
(***************************************************************************)
LogCap == 1000
MaxBackoff == 10
BackoffCap == 4

\* Strings that come from outside (translations, error messages) are tuples
\* here, the empty string the empty tuple.
None == <<"None">>
EmptyStr == <<>>
AllFailedMsg == <<"All translation services failed">>

\* class TranslationService(Enum), in definition order
valid_services == <<"google", "mymemory">>
Services == {valid_services[i] : i \in 1..Len(valid_services)}
\* what a config.json may name: the two services and one the enum lacks
RawIds == Services \cup {"deepl"}

Texts == {"t1"}

VARIABLES
    config,             \* self.config (the keys the orchestration reads)
    translation_log,    \* self.translation_log
    circuit_breaker,    \* self.circuit_breaker: endpoint -> <<failures, last_failure>>
    now,                \* time.time()
    pc,                 \* "idle" | "core" (inside translate_text) | "ret" (it returned or raised)
    text,               \* argument of the running translate_text call
    attempt,            \* _translate_text_simple_retry: attempt
    idx,                \* _translate_text_core: position in services (1-based)
    last_exception,     \* _translate_text_core: last_exception
    outcome,            \* what translate_text returned or raised
    calls,              \* observation: provider invocations of the running call
    log0,               \* observation: translation_log when the call started
    cb0,                \* observation: circuit_breaker when the call started
    ncalls,             \* observation: translate_text calls so far
    nsaves,             \* observation: configuration dialogs accepted so far
    lastCheck,          \* observation: the last is_endpoint_disabled call
    appended,           \* observation: entries logged since the last clear
    sleeps,             \* observation: the time.sleep calls of the running call or batch
    DEEP_TRANSLATOR_AVAILABLE,  \* the deep_translator import succeeded
    bpc,                \* batch: "idle" | "poll" | "item" | "call" | "done"
    items,              \* batch: the texts of selected_items
    row,                \* batch: enumerate index of the loop (1-based)
    translated_count,   \* batch: translated_count
    failed_count,       \* batch: failed_count
    consecutive_failures,  \* batch: consecutive_failures
    current_delay,      \* batch: current_delay
    canceled,           \* batch: what progress.wasCanceled() answers
    events,             \* observation: what the batch has done, in order
    stats,              \* what get_translation_stats returned last
    exported,           \* the file export_translation_log wrote last
    TENACITY_AVAILABLE, \* the tenacity import succeeded
    config_json,        \* ~/.csv_editor/config.json: a key is <<value>>, << >> if absent
    dlg                 \* the translate dialog that was accepted, and what it keeps

batchVars == <<bpc, items, row, translated_count, failed_count, consecutive_failures,
               current_delay, canceled, events>>

reportVars == <<stats, exported>>

\* what translate_text and the operations of the earlier sections leave alone
\* the flags the imports at the top of the module set
importVars == <<DEEP_TRANSLATOR_AVAILABLE, TENACITY_AVAILABLE>>

\* what the translate dialogs and save_config change
dialogVars == <<config_json, dlg>>

frameVars == <<importVars, batchVars, reportVars, dialogVars>>

vars == <<config, translation_log, circuit_breaker, now, pc, text, attempt, idx,
          last_exception, outcome, calls, log0, cb0, ncalls, nsaves, lastCheck, appended,
          sleeps, frameVars>>

callVars == <<pc, text, attempt, idx, last_exception, outcome, calls, log0, cb0, ncalls>>

(***************************************************************************)
(* Sequences.                                                              *)
(***************************************************************************)
SeqsUpTo(S, n) == UNION {[1..k -> S] : k \in 0..n}

Range(s) == {s[i] : i \in 1..Len(s)}

Min(a, b) == IF a < b THEN a ELSE b
Max(a, b) == IF a < b THEN b ELSE a

RECURSIVE Pow2(_)
Pow2(n) == IF n = 0 THEN 1 ELSE 2 * Pow2(n - 1)

\* [s for s in lst if s in allowed]
Filter(lst, allowed) == LET keep(s) == s \in allowed IN SelectSeq(lst, keep)

(***************************************************************************)
(* Delays are Python floats; the model computes them exactly, as fractions *)
(* <<numerator, denominator>> in lowest terms.                             *)
(***************************************************************************)
RECURSIVE GCD(_, _)
GCD(a, b) == IF b = 0 THEN a ELSE GCD(b, a % b)

R(n, d) == LET g == GCD(n, d) IN <<n \div g, d \div g>>

\* the product, cancelling first so that no intermediate value outgrows the
\* model checker's integers
RMul(a, b) ==
    LET g == GCD(a[1], b[2])
        h == GCD(b[1], a[2])
    IN  <<(a[1] \div g) * (b[1] \div h), (a[2] \div h) * (b[2] \div g)>>

RAdd(a, b) == R(a[1] * b[2] + b[1] * a[2], a[2] * b[2])

RECURSIVE RLeq(_, _)
\* a <= b, by whole parts and then the remainders' reciprocals
RLeq(a, b) ==
    LET qa == a[1] \div a[2]
        qb == b[1] \div b[2]
        ra == a[1] % a[2]
        rb == b[1] % b[2]
    IN  IF qa # qb THEN qa < qb
        ELSE IF ra = 0 THEN TRUE
        ELSE IF rb = 0 THEN FALSE
        ELSE RLeq(<<b[2], rb>>, <<a[2], ra>>)

RMax(a, b) == IF RLeq(a, b) THEN b ELSE a

RMin(a, b) == IF RLeq(a, b) THEN a ELSE b

(***************************************************************************)
(* load_config: the defaults and the clean-up of the two service lists.    *)
(***************************************************************************)
\* config.setdefault(key, default): a key of the file is <<value>>, a key
\* the file lacks is << >>
SetDefault(v, default) == IF v = <<>> THEN default ELSE v[1]

\* config.setdefault('base_delay', 8.0)
DefaultBaseDelay == R(8, 1)

\* save_config: json.dump(self.config) writes every key
save_config(c) ==
    [enabled_services |-> <<c.enabled_services>>,
     priority_order |-> <<c.priority_order>>,
     retry_count |-> c.retry_count,
     base_delay |-> <<c.base_delay>>,
     circuit_breaker_threshold |-> c.circuit_breaker_threshold,
     circuit_breaker_timeout |-> c.circuit_breaker_timeout]

RawLists == {<<lst>> : lst \in SeqsUpTo(RawIds, MaxCfgLen)} \cup {<<>>}

\* the config.json contents of the model
RawConfigs ==
    [enabled_services : RawLists, priority_order : RawLists,
     retry_count : 1..MaxRetry,
     base_delay : {<<>>},
     circuit_breaker_threshold : {MaxThreshold},
     circuit_breaker_timeout : {MaxCooldown}]

\* the files that name known services only: every configuration load_config
\* can produce comes from one of them
KnownLists == {<<lst>> : lst \in SeqsUpTo(Services, MaxCfgLen)} \cup {<<>>}

KnownConfigs == {raw \in RawConfigs : raw.enabled_services \in KnownLists
                                       /\ raw.priority_order \in KnownLists}

\* load_config without the reset of a list the clean-up emptied
load_config_no_reset(raw) ==
    [enabled_services |-> Filter(SetDefault(raw.enabled_services, <<"google", "mymemory">>),
                                 Services),
     priority_order |-> Filter(SetDefault(raw.priority_order, <<"google", "mymemory">>),
                               Services),
     retry_count |-> raw.retry_count,
     base_delay |-> SetDefault(raw.base_delay, DefaultBaseDelay),
     circuit_breaker_threshold |-> raw.circuit_breaker_threshold,
     circuit_breaker_timeout |-> raw.circuit_breaker_timeout]

load_config(raw) ==
    LET enabled == Filter(SetDefault(raw.enabled_services, <<"google", "mymemory">>), Services)
        priority == Filter(SetDefault(raw.priority_order, <<"google", "mymemory">>), Services)
    IN  [enabled_services |-> IF enabled = <<>> THEN <<"google">> ELSE enabled,
         priority_order |-> IF priority = <<>> THEN <<"google">> ELSE priority,
         retry_count |-> raw.retry_count,
         base_delay |-> SetDefault(raw.base_delay, DefaultBaseDelay),
         circuit_breaker_threshold |-> raw.circuit_breaker_threshold,
         circuit_breaker_timeout |-> raw.circuit_breaker_timeout]

(***************************************************************************)
(* log_translation.                                                        *)
(***************************************************************************)
LogEntry(t, source, target, service, success, error) ==
    [timestamp |-> t, source |-> source, target |-> target,
     service |-> service, success |-> success, error |-> error]

\* log_translation keeping the head of an overfull log (log[:1000])
log_translation_keep_first(log, entry) ==
    LET l == Append(log, entry)
    IN  IF Len(l) > LogCap THEN SubSeq(l, 1, LogCap) ELSE l

\* log_translation called on the success path only
log_translation_successes_only(log, entry) ==
    IF entry.success THEN Append(log, entry) ELSE log

log_translation(log, entry) ==
    LET l == Append(log, entry)
    IN  IF Len(l) > LogCap THEN SubSeq(l, Len(l) - LogCap + 1, Len(l)) ELSE l

(***************************************************************************)
(* _translate_text_core: the walk over config['priority_order'].           *)
(***************************************************************************)
\* the for loop's `continue` branches: a service that is not enabled, or
\* one that is neither 'google' nor 'mymemory', is passed over
Callable(service) ==
    /\ service \in Range(config.enabled_services)
    /\ service \in {"google", "mymemory"}

\* the next position at or after i whose service gets invoked; 0 if none
NextCallable(i) ==
    LET services == config.priority_order
        js == {j \in i..Len(services) : Callable(services[j])}
    IN  IF js = {} THEN 0 ELSE CHOOSE j \in js : \A k \in js : j <= k

\* the services one pass of the loop invokes, in order
Eligible == LET services == config.priority_order
            IN  SelectSeq(services, Callable)

\* self.circuit_breaker = {}
EmptyCB == [endpoint \in {} |-> <<0, 0>>]

\* no call is running: nothing was returned or raised
NoOutcome == [ok |-> FALSE, error |-> None]

\* is_endpoint_disabled's condition, read without its side effect
EndpointDisabledAt(cb, endpoint, t) ==
    /\ endpoint \in DOMAIN cb
    /\ cb[endpoint][1] >= config.circuit_breaker_threshold
    /\ t - cb[endpoint][2] < config.circuit_breaker_timeout

\* The code never looks into a translation or an error message: it stores
\* them and hands them on.  Each provider answer therefore gets a label of
\* its own, naming the call and the invocation that produced it.
ResultOf(service) == <<"translation", service, ncalls, Len(calls) + 1>>
ErrorOf(service) == <<"error", service, ncalls, Len(calls) + 1>>

\* one provider invocation as the observation `calls` keeps it: who was
\* called, at which place of priority_order, in which attempt of the retry
\* loop, when, the answer, and whether the circuit breaker had the service
\* disabled at that moment
Invocation(service, ok, out) ==
    [service |-> service, position |-> NextCallable(idx), attempt |-> attempt,
     at |-> now, ok |-> ok, out |-> out,
     disabled |-> EndpointDisabledAt(circuit_breaker, service, now)]

\* return (result, service)
ReturnValue(result, service) == [ok |-> TRUE, result |-> result, service |-> service]

\* raise e
Raised(e) == [ok |-> FALSE, error |-> e]

\* translate_text is entered: the retry loop starts its first attempt
StartTranslate ==
    /\ pc = "idle"
    /\ ncalls < MaxCalls
    /\ \E t \in Texts : text' = t
    /\ pc' = "core"
    /\ attempt' = 0
    /\ idx' = 1
    /\ last_exception' = None
    /\ outcome' = NoOutcome
    /\ calls' = <<>>
    /\ log0' = translation_log
    /\ cb0' = circuit_breaker
    /\ ncalls' = ncalls + 1
    /\ UNCHANGED <<config, translation_log, circuit_breaker, now, nsaves, lastCheck, appended>>
    /\ sleeps' = <<>>
    /\ UNCHANGED frameVars

\* CoreInvokeSuccess without its return: the loop goes on to the next service
CoreInvokeSuccess_NoReturn ==
    /\ pc = "core"
    /\ NextCallable(idx) # 0
    /\ DEEP_TRANSLATOR_AVAILABLE
    /\ LET service == config.priority_order[NextCallable(idx)]
           result == ResultOf(service)
           entry == LogEntry(now, text, result, service, TRUE, EmptyStr)
       IN  /\ translation_log' = log_translation(translation_log, entry)
           /\ appended' = Append(appended, entry)
           /\ outcome' = ReturnValue(result, service)
           /\ calls' = Append(calls, Invocation(service, TRUE, result))
    /\ idx' = NextCallable(idx) + 1
    /\ UNCHANGED <<config, circuit_breaker, now, pc, text, attempt, last_exception,
                   log0, cb0, ncalls, nsaves, lastCheck>>
    /\ UNCHANGED <<sleeps, frameVars>>

\* CoreInvokeSuccess closing the circuit of the service that answered
CoreInvokeSuccess_ResetsBreaker ==
    /\ pc = "core"
    /\ NextCallable(idx) # 0
    /\ DEEP_TRANSLATOR_AVAILABLE
    /\ LET service == config.priority_order[NextCallable(idx)]
           result == ResultOf(service)
           entry == LogEntry(now, text, result, service, TRUE, EmptyStr)
       IN  /\ translation_log' = log_translation(translation_log, entry)
           /\ appended' = Append(appended, entry)
           /\ outcome' = ReturnValue(result, service)
           /\ calls' = Append(calls, Invocation(service, TRUE, result))
           /\ circuit_breaker' = [x \in DOMAIN circuit_breaker \ {service} |->
                                    circuit_breaker[x]]
    /\ pc' = "ret"
    /\ idx' = NextCallable(idx)
    /\ UNCHANGED <<config, now, text, attempt, last_exception,
                   log0, cb0, ncalls, nsaves, lastCheck>>
    /\ UNCHANGED <<sleeps, frameVars>>

\* the provider answers: log_translation(text, result, service, True, "")
\* and return (result, service)
CoreInvokeSuccess ==
    /\ pc = "core"
    /\ NextCallable(idx) # 0
    /\ DEEP_TRANSLATOR_AVAILABLE
    /\ LET service == config.priority_order[NextCallable(idx)]
           result == ResultOf(service)
           entry == LogEntry(now, text, result, service, TRUE, EmptyStr)
       IN  /\ translation_log' = log_translation(translation_log, entry)
           /\ appended' = Append(appended, entry)
           /\ outcome' = ReturnValue(result, service)
           /\ calls' = Append(calls, Invocation(service, TRUE, result))
    /\ pc' = "ret"
    /\ idx' = NextCallable(idx)
    /\ UNCHANGED <<config, circuit_breaker, now, text, attempt, last_exception,
                   log0, cb0, ncalls, nsaves, lastCheck>>
    /\ UNCHANGED <<sleeps, frameVars>>

\* CoreInvokeFailure with the retry inside the loop: the same service is
\* tried again until it has failed retry_count times, then the next one
CoreInvokeFailure_SameProvider ==
    /\ pc = "core"
    /\ NextCallable(idx) # 0
    /\ LET service == config.priority_order[NextCallable(idx)]
           e == ErrorOf(service)
           entry == LogEntry(now, text, EmptyStr, service, FALSE, e)
           failed == Cardinality({i \in 1..Len(calls) :
                                    calls[i].position = NextCallable(idx)}) + 1
       IN  /\ translation_log' = log_translation(translation_log, entry)
           /\ appended' = Append(appended, entry)
           /\ last_exception' = e
           /\ calls' = Append(calls, Invocation(service, FALSE, e))
           /\ idx' = IF failed < config.retry_count
                      THEN NextCallable(idx) ELSE NextCallable(idx) + 1
    /\ UNCHANGED <<config, circuit_breaker, now, pc, text, attempt, outcome,
                   log0, cb0, ncalls, nsaves, lastCheck>>
    /\ UNCHANGED <<sleeps, frameVars>>

\* the provider raises: log_translation(text, '', service, False, str(e)),
\* last_exception = e, continue
CoreInvokeFailure ==
    /\ pc = "core"
    /\ NextCallable(idx) # 0
    /\ LET service == config.priority_order[NextCallable(idx)]
           e == ErrorOf(service)
           entry == LogEntry(now, text, EmptyStr, service, FALSE, e)
       IN  /\ translation_log' = log_translation(translation_log, entry)
           /\ appended' = Append(appended, entry)
           /\ last_exception' = e
           /\ calls' = Append(calls, Invocation(service, FALSE, e))
    /\ idx' = NextCallable(idx) + 1
    /\ UNCHANGED <<config, circuit_breaker, now, pc, text, attempt, outcome,
                   log0, cb0, ncalls, nsaves, lastCheck>>
    /\ UNCHANGED <<sleeps, frameVars>>

\* the core raising its generic exception whatever happened
CoreRaised_Generic == AllFailedMsg

\* what _translate_text_core raises when its loop ends
CoreRaised == IF last_exception # None THEN last_exception ELSE AllFailedMsg

\* the wait without its cap
RetryWait_Uncapped(n) == Pow2(n)

\* wait_time = min(10, 2 ** attempt), and what wait_exponential(multiplier=1,
\* min=1, max=10) gives after attempt number attempt + 1
RetryWait(n) == Min(MaxBackoff, Pow2(n))

\* time.sleep(wait_time) of the retry loop
RetrySleep(seconds) == [kind |-> "retry", seconds |-> R(seconds, 1)]

\* CoreRaiseRetry with one attempt more than retry_count
CoreRaiseRetry_OneMore ==
    /\ pc = "core"
    /\ ~TENACITY_AVAILABLE
    /\ NextCallable(idx) = 0
    /\ attempt < config.retry_count
    /\ attempt' = attempt + 1
    /\ idx' = 1
    /\ last_exception' = None
    /\ UNCHANGED <<config, translation_log, circuit_breaker, now, pc, text, outcome,
                   calls, log0, cb0, ncalls, nsaves, lastCheck, appended>>
    /\ sleeps' = Append(sleeps, RetrySleep(RetryWait(attempt)))
    /\ UNCHANGED frameVars

\* the loop ended and the retry loop has an attempt left: sleep, call the core again
CoreRaiseRetry ==
    /\ pc = "core"
    /\ ~TENACITY_AVAILABLE
    /\ NextCallable(idx) = 0
    /\ attempt < config.retry_count - 1
    /\ attempt' = attempt + 1
    /\ idx' = 1
    /\ last_exception' = None
    /\ UNCHANGED <<config, translation_log, circuit_breaker, now, pc, text, outcome,
                   calls, log0, cb0, ncalls, nsaves, lastCheck, appended>>
    /\ sleeps' = Append(sleeps, RetrySleep(RetryWait(attempt)))
    /\ UNCHANGED frameVars

\* CoreRaiseFinal without the test for a remaining attempt
CoreRaiseFinal_GiveUpEarly ==
    /\ pc = "core"
    /\ ~TENACITY_AVAILABLE
    /\ NextCallable(idx) = 0
    /\ outcome' = Raised(CoreRaised)
    /\ pc' = "ret"
    /\ UNCHANGED <<config, translation_log, circuit_breaker, now, text, attempt, idx,
                   last_exception, calls, log0, cb0, ncalls, nsaves, lastCheck, appended>>
    /\ UNCHANGED <<sleeps, frameVars>>

\* the loop ended on the last attempt: the retry loop raises last_exception
CoreRaiseFinal ==
    /\ pc = "core"
    /\ ~TENACITY_AVAILABLE
    /\ NextCallable(idx) = 0
    /\ ~(attempt < config.retry_count - 1)
    /\ outcome' = Raised(CoreRaised)
    /\ pc' = "ret"
    /\ UNCHANGED <<config, translation_log, circuit_breaker, now, text, attempt, idx,
                   last_exception, calls, log0, cb0, ncalls, nsaves, lastCheck, appended>>
    /\ UNCHANGED <<sleeps, frameVars>>

\* wait_exponential counting the attempts from 0: 2 ** attempt_number
wait_exponential_FromTwo(attempt_number) ==
    Max(1, Min(MaxBackoff, Pow2(attempt_number)))

\* wait_exponential(multiplier=1, min=1, max=10) after attempt number
\* attempt_number (from 1): 1 * 2 ** (attempt_number - 1), kept within min and max
wait_exponential(attempt_number) ==
    Max(1, Min(MaxBackoff, Pow2(attempt_number - 1)))

\* stop_after_attempt(retry_count): stop once attempt_number >= retry_count
stop_after_attempt(attempt_number) == attempt_number >= config.retry_count

\* retrying_translate: the core raised and the decorator does not stop:
\* sleep wait_exponential, call the core again
RetryingRaiseRetry ==
    /\ pc = "core"
    /\ TENACITY_AVAILABLE
    /\ NextCallable(idx) = 0
    /\ ~stop_after_attempt(attempt + 1)
    /\ attempt' = attempt + 1
    /\ idx' = 1
    /\ last_exception' = None
    /\ UNCHANGED <<config, translation_log, circuit_breaker, now, pc, text, outcome,
                   calls, log0, cb0, ncalls, nsaves, lastCheck, appended>>
    /\ sleeps' = Append(sleeps, RetrySleep(wait_exponential(attempt + 1)))
    /\ UNCHANGED frameVars

\* retrying_translate: the core raised and the decorator stops: reraise=True
\* raises the exception of the last attempt
RetryingRaiseFinal ==
    /\ pc = "core"
    /\ TENACITY_AVAILABLE
    /\ NextCallable(idx) = 0
    /\ stop_after_attempt(attempt + 1)
    /\ outcome' = Raised(CoreRaised)
    /\ pc' = "ret"
    /\ UNCHANGED <<config, translation_log, circuit_breaker, now, text, attempt, idx,
                   last_exception, calls, log0, cb0, ncalls, nsaves, lastCheck, appended>>
    /\ UNCHANGED <<sleeps, frameVars>>

\* the caller has the result (or the exception)
Return ==
    /\ pc = "ret"
    /\ pc' = "idle"
    /\ text' = "-"
    /\ attempt' = 0
    /\ idx' = 1
    /\ last_exception' = None
    /\ outcome' = NoOutcome
    /\ calls' = <<>>
    /\ log0' = <<>>
    /\ cb0' = EmptyCB
    /\ UNCHANGED <<config, translation_log, circuit_breaker, now, ncalls, nsaves, lastCheck, appended>>
    /\ UNCHANGED <<sleeps, frameVars>>

TranslateNext ==
    \/ StartTranslate
    \/ CoreInvokeSuccess
    \/ CoreInvokeFailure
    \/ CoreRaiseRetry
    \/ CoreRaiseFinal
    \/ Return

(***************************************************************************)
(* The host between two calls.                                             *)
(***************************************************************************)
\* the orders drag and drop can give the priority list
Reorderings(s) == {[i \in 1..Len(s) |-> s[f[i]]] : f \in Permutations(1..Len(s))}

\* delay_spin.setRange(0.1, 30.0): the spin box turned up to its end
DialogDelays == {R(30, 1)}

\* show_translation_config_dialog, accepted: the checked services in enum
\* order, the list as reordered, the retry spin box
SaveTranslationConfig ==
    /\ pc = "idle"
    /\ nsaves < MaxSaves
    /\ nsaves' = nsaves + 1
    /\ \E checked \in SUBSET Services, retry \in 1..MaxRetry, delay \in DialogDelays :
         \E order \in Reorderings(Filter(config.priority_order, Services)) :
           config' = [config EXCEPT !.enabled_services = Filter(valid_services, checked),
                                    !.priority_order = order,
                                    !.retry_count = retry,
                                    !.base_delay = delay]
    /\ config_json' = save_config(config')
    /\ UNCHANGED <<translation_log, circuit_breaker, now, lastCheck, appended>>
    /\ UNCHANGED callVars
    /\ UNCHANGED <<sleeps, importVars, batchVars, reportVars, dlg>>

\* clear_translation_log dropping the circuit breaker along with the log
ClearTranslationLog_AndBreaker ==
    /\ pc = "idle"
    /\ translation_log' = <<>>
    /\ appended' = <<>>
    /\ circuit_breaker' = EmptyCB
    /\ UNCHANGED <<config, now, nsaves, lastCheck>>
    /\ UNCHANGED callVars
    /\ UNCHANGED <<sleeps, frameVars>>

\* clear_translation_log
ClearTranslationLog ==
    /\ pc = "idle"
    /\ translation_log' = <<>>
    /\ appended' = <<>>
    /\ UNCHANGED <<config, circuit_breaker, now, nsaves, lastCheck>>
    /\ UNCHANGED callVars
    /\ UNCHANGED <<sleeps, frameVars>>

(***************************************************************************)
(* The circuit breaker: is_endpoint_disabled and record_endpoint_failure.  *)
(* Nothing in the program calls them; they are methods of the window the   *)
(* host (or a test) calls between two translations.                        *)
(***************************************************************************)
\* del self.circuit_breaker[endpoint]
Del(cb, endpoint) == [x \in DOMAIN cb \ {endpoint} |-> cb[x]]

\* is_endpoint_disabled with `<=` for `<` in the cooldown test
is_endpoint_disabled_le(cb, endpoint, t) ==
    IF endpoint \notin DOMAIN cb
    THEN [ret |-> FALSE, cb |-> cb]
    ELSE LET failures == cb[endpoint][1]
             last_failure == cb[endpoint][2]
         IN  IF failures >= config.circuit_breaker_threshold
             THEN IF t - last_failure <= config.circuit_breaker_timeout
                  THEN [ret |-> TRUE, cb |-> cb]
                  ELSE [ret |-> FALSE, cb |-> Del(cb, endpoint)]
             ELSE [ret |-> FALSE, cb |-> cb]

\* is_endpoint_disabled without the del
is_endpoint_disabled_keep(cb, endpoint, t) ==
    IF endpoint \notin DOMAIN cb
    THEN [ret |-> FALSE, cb |-> cb]
    ELSE LET failures == cb[endpoint][1]
             last_failure == cb[endpoint][2]
         IN  IF failures >= config.circuit_breaker_threshold
             THEN IF t - last_failure < config.circuit_breaker_timeout
                  THEN [ret |-> TRUE, cb |-> cb]
                  ELSE [ret |-> FALSE, cb |-> cb]
             ELSE [ret |-> FALSE, cb |-> cb]

\* the value returned and the dictionary left behind
is_endpoint_disabled(cb, endpoint, t) ==
    IF endpoint \notin DOMAIN cb
    THEN [ret |-> FALSE, cb |-> cb]
    ELSE LET failures == cb[endpoint][1]
             last_failure == cb[endpoint][2]
         IN  IF failures >= config.circuit_breaker_threshold
             THEN IF t - last_failure < config.circuit_breaker_timeout
                  THEN [ret |-> TRUE, cb |-> cb]
                  ELSE [ret |-> FALSE, cb |-> Del(cb, endpoint)]
             ELSE [ret |-> FALSE, cb |-> cb]

\* record_endpoint_failure leaving the time of an earlier failure in place
record_endpoint_failure_stale(cb, endpoint, t) ==
    IF endpoint \notin DOMAIN cb
    THEN (endpoint :> <<1, t>>) @@ cb
    ELSE [cb EXCEPT ![endpoint] = <<cb[endpoint][1] + 1, cb[endpoint][2]>>]

record_endpoint_failure(cb, endpoint, t) ==
    LET created == IF endpoint \notin DOMAIN cb THEN (endpoint :> <<0, 0>>) @@ cb ELSE cb
    IN  [created EXCEPT ![endpoint] = <<created[endpoint][1] + 1, t>>]

\* failureCount(p): 0 for an endpoint without state
FailureCount(cb, endpoint) == IF endpoint \in DOMAIN cb THEN cb[endpoint][1] ELSE 0

\* the last check: what it returned, whether it deleted the state, whether
\* the cooldown had passed since the last failure, and the count it left
NoCheck == [endpoint |-> "-", ret |-> FALSE, cleared |-> FALSE, elapsed |-> FALSE, left |-> 0]

IsEndpointDisabledOn(endpoint) ==
    /\ pc = "idle"
    /\ LET r == is_endpoint_disabled(circuit_breaker, endpoint, now)
       IN  /\ circuit_breaker' = r.cb
           /\ lastCheck' = [endpoint |-> endpoint, ret |-> r.ret,
                            cleared |-> endpoint \in DOMAIN circuit_breaker \ DOMAIN r.cb,
                            elapsed |-> /\ endpoint \in DOMAIN circuit_breaker
                                        /\ now - circuit_breaker[endpoint][2]
                                             >= config.circuit_breaker_timeout,
                            left |-> FailureCount(r.cb, endpoint)]
    /\ UNCHANGED <<config, translation_log, now, nsaves, appended>>
    /\ UNCHANGED callVars
    /\ UNCHANGED <<sleeps, frameVars>>

IsEndpointDisabled == \E endpoint \in Services : IsEndpointDisabledOn(endpoint)

RecordEndpointFailureOn(endpoint) ==
    /\ pc = "idle"
    /\ FailureCount(circuit_breaker, endpoint) < MaxFailures
    /\ circuit_breaker' = record_endpoint_failure(circuit_breaker, endpoint, now)
    /\ UNCHANGED <<config, translation_log, now, nsaves, lastCheck, appended>>
    /\ UNCHANGED callVars
    /\ UNCHANGED <<sleeps, frameVars>>

RecordEndpointFailure == \E endpoint \in Services : RecordEndpointFailureOn(endpoint)

\* time passes
Tick ==
    /\ now < MaxTime
    /\ now' = now + 1
    /\ UNCHANGED <<config, translation_log, circuit_breaker, nsaves, lastCheck, appended>>
    /\ UNCHANGED callVars
    /\ UNCHANGED <<sleeps, frameVars>>

(***************************************************************************)
(* The log on its own: log_translation called with one entry after the     *)
(* other, each a different one, and clear_translation_log.  A caller logs  *)
(* one entry, or a run of MaxBatch entries as a batch translation does.    *)
(***************************************************************************)
\* the n-th entry handed to log_translation since the last clear
NthEntry(n) ==
    LogEntry(now, "t1", <<"translation", "google", 0, n>>, "google", TRUE, EmptyStr)

RECURSIVE LogRun(_, _, _)
\* log_translation called k times, with entries first, first+1, ...
LogRun(log, first, k) ==
    IF k = 0 THEN log
    ELSE LogRun(log_translation(log, NthEntry(first)), first + 1, k - 1)

LogTranslation ==
    /\ pc = "idle"
    /\ \E k \in {1, MaxBatch} :
         /\ Len(appended) + k <= MaxAppends
         /\ translation_log' = LogRun(translation_log, Len(appended) + 1, k)
         /\ appended' = appended \o [i \in 1..k |-> NthEntry(Len(appended) + i)]
    /\ UNCHANGED <<config, circuit_breaker, now, nsaves, lastCheck>>
    /\ UNCHANGED callVars
    /\ UNCHANGED <<sleeps, frameVars>>

(***************************************************************************)
(* translate_selected_cells (translate_column runs the same loop over the  *)
(* rows of a column): the readiness check, then one item after the other,  *)
(* with the pacing between them.                                           *)
(***************************************************************************)
\* max_delay = 60.0
MaxDelay == R(60, 1)

\* current_delay * 0.9, current_delay * 1.5, current_delay * 0.1
Decay == R(9, 10)
Growth == R(3, 2)
JitterShare == R(1, 10)

\* random.uniform(0, current_delay * 0.1): the ends of the interval, as
\* shares of the interval; current_delay + jitter is current_delay times
\* (1 + share * 0.1)
Jitters == {R(0, 1), R(1, 1)}

\* cell texts: a text to translate, and one that .strip() empties
ItemTexts == {"t1", " "}

\* item.text().strip()
Strip(t) == IF t = " " THEN "" ELSE t

\* validate_translation_readiness: check_endpoint_health marks both services
\* available exactly when deep_translator was imported
validate_translation_readiness == DEEP_TRANSLATOR_AVAILABLE

\* wait_time = min(max_delay, base_delay * (2 ** min(consecutive_failures - 1, 4)))
BackoffWait_Uncapped(base, failures) ==
    RMin(MaxDelay, RMul(base, R(Pow2(failures - 1), 1)))

BackoffWait(base, failures) ==
    RMin(MaxDelay, RMul(base, R(Pow2(Min(failures - 1, BackoffCap)), 1)))

\* what the batch did: e is "warning" (not ready), "cancel" (the Cancel
\* button), "poll" (wasCanceled is asked), "break", "skip", "call", "ok",
\* "fail", "complete" or "nothing" (the summary boxes); d0, f0 are
\* current_delay and consecutive_failures before, d1, f1 after
Event(e, item, out, d1, f1, slept) ==
    [e |-> e, item |-> item, out |-> out, d0 |-> current_delay, d1 |-> d1,
     f0 |-> consecutive_failures, f1 |-> f1, slept |-> slept]

Mark(e, item, out) ==
    Event(e, item, out, current_delay, consecutive_failures, R(0, 1))

PaceSleep(seconds) == [kind |-> "pace", seconds |-> seconds]

BackoffSleep(seconds) == [kind |-> "backoff", seconds |-> seconds]

\* the batches of the model: short ones with empty cells, longer ones
\* without, as long as the work they can cause allows
ItemLists ==
    LET cost == config.retry_count * (IF Eligible = <<>> THEN 1 ELSE Len(Eligible))
        longest == MaxWork \div cost
    IN  SeqsUpTo(ItemTexts, Min(MaxItems, longest))
          \cup {[i \in 1..n |-> "t1"] : n \in 0..longest}

\* translate_selected_cells is entered: not ready, it returns at once;
\* ready, it sets up the counters and the pacing state
BatchStart ==
    /\ bpc = "idle"
    /\ pc = "idle"
    /\ \E selected_items \in ItemLists : items' = selected_items
    /\ IF ~validate_translation_readiness
       THEN /\ bpc' = "done"
            /\ events' = <<Mark("warning", 0, EmptyStr)>>
            /\ UNCHANGED <<translated_count, failed_count, consecutive_failures,
                           current_delay>>
       ELSE /\ bpc' = "poll"
            /\ events' = <<>>
            /\ translated_count' = 0
            /\ failed_count' = 0
            /\ consecutive_failures' = 0
            /\ current_delay' = config.base_delay
    /\ row' = 1
    /\ sleeps' = <<>>
    /\ UNCHANGED <<config, translation_log, circuit_breaker, now, nsaves, lastCheck,
                   appended, canceled, importVars, dialogVars, reportVars>>
    /\ UNCHANGED callVars

\* the user presses Cancel on the progress dialog
Cancel ==
    /\ bpc \in {"poll", "call"}
    /\ ~canceled
    /\ canceled' = TRUE
    /\ events' = Append(events, Mark("cancel", row, EmptyStr))
    /\ UNCHANGED <<config, translation_log, circuit_breaker, now, nsaves, lastCheck,
                   appended, sleeps, importVars, dialogVars, reportVars,
                   bpc, items, row, translated_count, failed_count,
                   consecutive_failures, current_delay>>
    /\ UNCHANGED callVars

\* if progress.wasCanceled(): break
BatchPollCanceled ==
    /\ bpc = "poll"
    /\ row <= Len(items)
    /\ canceled
    /\ bpc' = "summary"
    /\ events' = events \o <<Mark("poll", row, EmptyStr), Mark("break", row, EmptyStr)>>
    /\ UNCHANGED <<config, translation_log, circuit_breaker, now, nsaves, lastCheck,
                   appended, sleeps, importVars, dialogVars, reportVars,
                   items, row, translated_count, failed_count,
                   consecutive_failures, current_delay, canceled>>
    /\ UNCHANGED callVars

\* BatchSkip counting the empty cell as a failure and backing off
BatchSkip_AsFailure ==
    /\ bpc = "poll"
    /\ row <= Len(items)
    /\ ~canceled
    /\ Strip(items[row]) = ""
    /\ row' = row + 1
    /\ failed_count' = failed_count + 1
    /\ consecutive_failures' = consecutive_failures + 1
    /\ sleeps' = Append(sleeps, BackoffSleep(BackoffWait(config.base_delay,
                                                          consecutive_failures + 1)))
    /\ events' = events \o <<Mark("poll", row, EmptyStr), Mark("skip", row, EmptyStr)>>
    /\ UNCHANGED <<config, translation_log, circuit_breaker, now, nsaves, lastCheck,
                   appended, importVars, dialogVars, reportVars,
                   bpc, items, translated_count, current_delay, canceled>>
    /\ UNCHANGED callVars

\* not cancelled, and the cell is empty: continue
BatchSkip ==
    /\ bpc = "poll"
    /\ row <= Len(items)
    /\ ~canceled
    /\ Strip(items[row]) = ""
    /\ row' = row + 1
    /\ events' = events \o <<Mark("poll", row, EmptyStr), Mark("skip", row, EmptyStr)>>
    /\ UNCHANGED <<config, translation_log, circuit_breaker, now, nsaves, lastCheck,
                   appended, sleeps, importVars, dialogVars, reportVars,
                   bpc, items, translated_count, failed_count,
                   consecutive_failures, current_delay, canceled>>
    /\ UNCHANGED callVars

\* BatchCall without the test of the cancellation flag
BatchCall_Unpolled ==
    /\ bpc = "poll"
    /\ row <= Len(items)
    /\ Strip(items[row]) # ""
    /\ bpc' = "call"
    /\ events' = Append(events, Mark("call", row, EmptyStr))
    /\ text' = Strip(items[row])
    /\ pc' = "core"
    /\ attempt' = 0
    /\ idx' = 1
    /\ last_exception' = None
    /\ outcome' = NoOutcome
    /\ calls' = <<>>
    /\ log0' = translation_log
    /\ cb0' = circuit_breaker
    /\ ncalls' = ncalls + 1
    /\ UNCHANGED <<config, translation_log, circuit_breaker, now, nsaves, lastCheck,
                   appended, sleeps, importVars, dialogVars, reportVars,
                   items, row, translated_count, failed_count,
                   consecutive_failures, current_delay, canceled>>

\* not cancelled, and the cell has text: translate_text(cell_text, ...) is entered
BatchCall ==
    /\ bpc = "poll"
    /\ row <= Len(items)
    /\ ~canceled
    /\ Strip(items[row]) # ""
    /\ bpc' = "call"
    /\ events' = events \o <<Mark("poll", row, EmptyStr), Mark("call", row, EmptyStr)>>
    /\ text' = Strip(items[row])
    /\ pc' = "core"
    /\ attempt' = 0
    /\ idx' = 1
    /\ last_exception' = None
    /\ outcome' = NoOutcome
    /\ calls' = <<>>
    /\ log0' = translation_log
    /\ cb0' = circuit_breaker
    /\ ncalls' = ncalls + 1
    /\ UNCHANGED <<config, translation_log, circuit_breaker, now, nsaves, lastCheck,
                   appended, sleeps, importVars, dialogVars, reportVars,
                   items, row, translated_count, failed_count,
                   consecutive_failures, current_delay, canceled>>

\* the try block is left: translate_text's frame is gone
CallReset ==
    /\ pc' = "idle"
    /\ text' = "-"
    /\ attempt' = 0
    /\ idx' = 1
    /\ last_exception' = None
    /\ outcome' = NoOutcome
    /\ calls' = <<>>
    /\ log0' = <<>>
    /\ cb0' = EmptyCB
    /\ UNCHANGED ncalls

\* BatchItemSuccess sleeping before the delay decays
BatchItemSuccess_SleepFirst ==
    /\ bpc = "call"
    /\ pc = "ret"
    /\ outcome.ok
    /\ \E jitter \in Jitters :
         LET decayed == RMax(config.base_delay, RMul(current_delay, Decay))
             slept == RMul(current_delay, RAdd(R(1, 1), RMul(jitter, JitterShare)))
         IN  /\ translated_count' = translated_count + 1
             /\ consecutive_failures' = 0
             /\ current_delay' = decayed
             /\ sleeps' = Append(sleeps, PaceSleep(slept))
             /\ events' = Append(events, Event("ok", row, outcome.result, decayed, 0, slept))
    /\ row' = row + 1
    /\ bpc' = "poll"
    /\ CallReset
    /\ UNCHANGED <<config, translation_log, circuit_breaker, now, nsaves, lastCheck,
                   appended, importVars, dialogVars, reportVars,
                   items, failed_count, canceled>>

\* translate_text returned: the cell gets the result, the delay decays, and
\* the batch sleeps the decayed delay plus jitter
BatchItemSuccess ==
    /\ bpc = "call"
    /\ pc = "ret"
    /\ outcome.ok
    /\ \E jitter \in Jitters :
         LET decayed == RMax(config.base_delay, RMul(current_delay, Decay))
             slept == RMul(decayed, RAdd(R(1, 1), RMul(jitter, JitterShare)))
         IN  /\ translated_count' = translated_count + 1
             /\ consecutive_failures' = 0
             /\ current_delay' = decayed
             /\ sleeps' = Append(sleeps, PaceSleep(slept))
             /\ events' = Append(events, Event("ok", row, outcome.result, decayed, 0, slept))
    /\ row' = row + 1
    /\ bpc' = "poll"
    /\ CallReset
    /\ UNCHANGED <<config, translation_log, circuit_breaker, now, nsaves, lastCheck,
                   appended, importVars, dialogVars, reportVars,
                   items, failed_count, canceled>>

\* BatchItemFailure with a delay that grows without the cap
BatchItemFailure_Uncapped ==
    /\ bpc = "call"
    /\ pc = "ret"
    /\ ~outcome.ok
    /\ LET failures == consecutive_failures + 1
           wait_time == BackoffWait(config.base_delay, failures)
           grown == RMul(current_delay, Growth)
       IN  /\ failed_count' = failed_count + 1
           /\ consecutive_failures' = failures
           /\ current_delay' = grown
           /\ sleeps' = Append(sleeps, BackoffSleep(wait_time))
           /\ events' = Append(events, Event("fail", row, outcome.error, grown, failures,
                                             wait_time))
    /\ row' = row + 1
    /\ bpc' = "poll"
    /\ CallReset
    /\ UNCHANGED <<config, translation_log, circuit_breaker, now, nsaves, lastCheck,
                   appended, importVars, dialogVars, reportVars,
                   items, translated_count, canceled>>

\* BatchItemFailure leaving the loop
BatchItemFailure_Abort ==
    /\ bpc = "call"
    /\ pc = "ret"
    /\ ~outcome.ok
    /\ LET failures == consecutive_failures + 1
           wait_time == BackoffWait(config.base_delay, failures)
           grown == RMin(MaxDelay, RMul(current_delay, Growth))
       IN  /\ failed_count' = failed_count + 1
           /\ consecutive_failures' = failures
           /\ current_delay' = grown
           /\ sleeps' = Append(sleeps, BackoffSleep(wait_time))
           /\ events' = Append(events, Event("fail", row, outcome.error, grown, failures,
                                             wait_time))
    /\ row' = row + 1
    /\ bpc' = "summary"
    /\ CallReset
    /\ UNCHANGED <<config, translation_log, circuit_breaker, now, nsaves, lastCheck,
                   appended, importVars, dialogVars, reportVars,
                   items, translated_count, canceled>>

\* translate_text raised: the failure is counted, the delay grows, and the
\* batch sleeps the backoff of the consecutive failures
BatchItemFailure ==
    /\ bpc = "call"
    /\ pc = "ret"
    /\ ~outcome.ok
    /\ LET failures == consecutive_failures + 1
           wait_time == BackoffWait(config.base_delay, failures)
           grown == RMin(MaxDelay, RMul(current_delay, Growth))
       IN  /\ failed_count' = failed_count + 1
           /\ consecutive_failures' = failures
           /\ current_delay' = grown
           /\ sleeps' = Append(sleeps, BackoffSleep(wait_time))
           /\ events' = Append(events, Event("fail", row, outcome.error, grown, failures,
                                             wait_time))
    /\ row' = row + 1
    /\ bpc' = "poll"
    /\ CallReset
    /\ UNCHANGED <<config, translation_log, circuit_breaker, now, nsaves, lastCheck,
                   appended, importVars, dialogVars, reportVars,
                   items, translated_count, canceled>>

\* the loop is over (by its end or by break): the summary box
BatchFinish ==
    /\ \/ bpc = "summary"
       \/ bpc = "poll" /\ row > Len(items)
    /\ bpc' = "done"
    /\ events' = Append(events, Mark(IF translated_count > 0 THEN "complete" ELSE "nothing",
                                     0, EmptyStr))
    /\ UNCHANGED <<config, translation_log, circuit_breaker, now, nsaves, lastCheck,
                   appended, sleeps, importVars, dialogVars, reportVars,
                   items, row, translated_count, failed_count,
                   consecutive_failures, current_delay, canceled>>
    /\ UNCHANGED callVars

\* one translate_text call of the batch, between its entry and its end
CoreNext ==
    \/ CoreInvokeSuccess
    \/ CoreInvokeFailure
    \/ CoreRaiseRetry
    \/ CoreRaiseFinal

BatchNext ==
    \/ BatchStart
    \/ Cancel
    \/ BatchPollCanceled
    \/ BatchSkip
    \/ BatchCall
    \/ BatchItemSuccess
    \/ BatchItemFailure
    \/ BatchFinish

(***************************************************************************)
(* The reports on the log: get_translation_stats and                       *)
(* export_translation_log.                                                 *)
(***************************************************************************)
(***************************************************************************)
(* The translate dialogs: show_translate_dialog (a column) and             *)
(* show_translate_cells_dialog (the selected cells).  Both offer every     *)
(* service of the enum and a fallback check box, set the configuration for *)
(* the run and call the batch.                                             *)
(***************************************************************************)
\* no translate dialog has been accepted
NoDialog == [kind |-> "-"]

\* the local original_enabled of the branch that does not save it
NotSaved == <<"-">>

\* [service] + [s for s in self.config['priority_order'] if s != service]
ServiceFirst(service) ==
    LET other(x) == x # service
    IN  <<service>> \o SelectSeq(config.priority_order, other)

\* what the handler keeps while the batch runs (service, fallback and the
\* saved originals), and as observation the configuration and the file
\* from before the dialog
Accepted(kind, service, fallback, original_priority, original_enabled) ==
    [kind |-> kind, service |-> service, fallback |-> fallback, stage |-> "run",
     original_priority |-> original_priority, original_enabled |-> original_enabled,
     config0 |-> config, json0 |-> config_json]

\* show_translate_dialog, accepted: preferred_service is saved, the lists
\* are set for the run, translate_column is about to be called
ShowTranslateDialog ==
    /\ bpc = "idle"
    /\ pc = "idle"
    /\ dlg = NoDialog
    /\ \E service \in Services, fallback \in BOOLEAN :
         /\ config_json' = save_config(config)
         /\ IF ~fallback
            THEN /\ config' = [config EXCEPT !.priority_order = <<service>>,
                                             !.enabled_services = <<service>>]
                 /\ dlg' = Accepted("column", service, fallback, config.priority_order,
                                    config.enabled_services)
            ELSE /\ config' = [config EXCEPT !.priority_order = ServiceFirst(service)]
                 /\ dlg' = Accepted("column", service, fallback, config.priority_order,
                                    NotSaved)
    /\ UNCHANGED <<translation_log, circuit_breaker, now, nsaves, lastCheck, appended,
                   sleeps, importVars, batchVars, reportVars>>
    /\ UNCHANGED callVars

\* the batch as the accepted dialog calls it; the cells dialog opens only
\* with cells selected
DialogBatchStart ==
    /\ dlg # NoDialog
    /\ dlg.stage = "run"
    /\ BatchStart
    /\ dlg.kind = "cells" => items' # <<>>

\* translate_column has returned: the saved lists are put back
ShowTranslateDialogReturn ==
    /\ dlg # NoDialog
    /\ dlg.kind = "column"
    /\ dlg.stage = "run"
    /\ bpc = "done"
    /\ config' = IF ~dlg.fallback
                 THEN [config EXCEPT !.priority_order = dlg.original_priority,
                                     !.enabled_services = dlg.original_enabled]
                 ELSE [config EXCEPT !.priority_order = dlg.original_priority]
    /\ dlg' = [dlg EXCEPT !.stage = "returned"]
    /\ UNCHANGED <<translation_log, circuit_breaker, now, nsaves, lastCheck, appended,
                   sleeps, importVars, batchVars, reportVars, config_json>>
    /\ UNCHANGED callVars

\* show_translate_cells_dialog, accepted: priority_order is set and the
\* configuration saved, translate_selected_cells is about to be called
ShowTranslateCellsDialog ==
    /\ bpc = "idle"
    /\ pc = "idle"
    /\ dlg = NoDialog
    /\ \E service \in Services, fallback \in BOOLEAN :
         /\ config' = [config EXCEPT !.priority_order =
                          IF fallback THEN ServiceFirst(service) ELSE <<service>>]
         /\ dlg' = Accepted("cells", service, fallback, NotSaved, NotSaved)
    /\ config_json' = save_config(config')
    /\ UNCHANGED <<translation_log, circuit_breaker, now, nsaves, lastCheck, appended,
                   sleeps, importVars, batchVars, reportVars>>
    /\ UNCHANGED callVars

\* translate_selected_cells has returned, and with it the handler
ShowTranslateCellsDialogReturn ==
    /\ dlg # NoDialog
    /\ dlg.kind = "cells"
    /\ dlg.stage = "run"
    /\ bpc = "done"
    /\ dlg' = [dlg EXCEPT !.stage = "returned"]
    /\ UNCHANGED <<config, translation_log, circuit_breaker, now, nsaves, lastCheck,
                   appended, sleeps, importVars, batchVars, reportVars, config_json>>
    /\ UNCHANGED callVars

\* no statistics asked for yet; no file written by the last export
NoStats == [total |-> 0 - 1]
NoFile == [format |-> "-"]

\* sum(1 for e in log if e['success'])
Successful(log) == Cardinality({i \in 1..Len(log) : log[i].success})

\* the entries of one service, in order
EntriesFor(log, service) ==
    LET own(entry) == entry.service = service IN SelectSeq(log, own)

\* (successful / total * 100) if total > 0 else 0
SuccessRate(successful, total) ==
    IF total > 0 THEN R(successful * 100, total) ELSE R(0, 1)

\* get_translation_stats with the rate as a share of 1
get_translation_stats_share(log) ==
    LET total == Len(log)
        successful == Successful(log)
    IN  [total |-> total,
         successful |-> successful,
         failed |-> total - successful,
         success_rate |-> IF total > 0 THEN R(successful, total) ELSE R(0, 1),
         by_service |->
            [service \in {log[i].service : i \in 1..Len(log)} |->
               LET mine == EntriesFor(log, service)
               IN  [total |-> Len(mine),
                    successful |-> Successful(mine),
                    failed |-> Len(mine) - Successful(mine),
                    success_rate |-> SuccessRate(Successful(mine), Len(mine))]]]

get_translation_stats(log) ==
    LET total == Len(log)
        successful == Successful(log)
    IN  [total |-> total,
         successful |-> successful,
         failed |-> total - successful,
         success_rate |-> SuccessRate(successful, total),
         by_service |->
            [service \in {log[i].service : i \in 1..Len(log)} |->
               LET mine == EntriesFor(log, service)
               IN  [total |-> Len(mine),
                    successful |-> Successful(mine),
                    failed |-> Len(mine) - Successful(mine),
                    success_rate |-> SuccessRate(Successful(mine), Len(mine))]]]

\* the statistics dialog asks for the statistics
GetTranslationStats ==
    /\ pc = "idle"
    /\ stats' = get_translation_stats(translation_log)
    /\ UNCHANGED <<config, translation_log, circuit_breaker, now, nsaves, lastCheck,
                   appended, sleeps, importVars, dialogVars, batchVars, exported>>
    /\ UNCHANGED callVars

\* time.strftime('%Y-%m-%d %H:%M:%S', time.localtime(timestamp)): the clock
\* of the model counts whole seconds
TimeStr(timestamp) == <<"%Y-%m-%d %H:%M:%S", timestamp>>

CsvHeader == <<"Timestamp", "Service", "Status", "Source Text", "Target Text", "Error">>

CsvRow(entry) ==
    <<TimeStr(entry.timestamp), entry.service,
      IF entry.success THEN "SUCCESS" ELSE "FAILED",
      entry.source, entry.target, entry.error>>

\* json.dump writes each entry with its six keys
JsonRecord(entry) ==
    [timestamp |-> entry.timestamp, source |-> entry.source, target |-> entry.target,
     service |-> entry.service, success |-> entry.success, error |-> entry.error]

\* export_translation_log writing the data rows only
export_translation_log_rows_only(log, format_type) ==
    IF format_type = "json"
    THEN [format |-> "json", records |-> [i \in 1..Len(log) |-> JsonRecord(log[i])]]
    ELSE [format |-> "csv", records |-> [i \in 1..Len(log) |-> CsvRow(log[i])]]

\* what export_translation_log writes to the chosen file
export_translation_log(log, format_type) ==
    IF format_type = "json"
    THEN [format |-> "json", records |-> [i \in 1..Len(log) |-> JsonRecord(log[i])]]
    ELSE [format |-> "csv",
          records |-> <<CsvHeader>> \o [i \in 1..Len(log) |-> CsvRow(log[i])]]

\* export_translation_log(format_type): exported is the file this call
\* wrote; none for another format or when the file dialog is dismissed
ExportTranslationLog ==
    /\ pc = "idle"
    /\ \E format_type \in {"json", "csv", "xml"}, chosen \in BOOLEAN :
         exported' = IF format_type \in {"json", "csv"} /\ chosen
                     THEN export_translation_log(translation_log, format_type)
                     ELSE NoFile
    /\ UNCHANGED <<config, translation_log, circuit_breaker, now, nsaves, lastCheck,
                   appended, sleeps, importVars, dialogVars, batchVars, stats>>
    /\ UNCHANGED callVars

\* log_translation as translate_text calls it: either service, an answer or
\* an error, each entry different from the ones before
LogOutcome ==
    /\ pc = "idle"
    /\ Len(appended) < MaxLogged
    /\ \E service \in Services, success \in BOOLEAN :
         LET n == Len(appended) + 1
             entry == LogEntry(now, "t1",
                               IF success THEN <<"translation", service, 0, n>> ELSE EmptyStr,
                               service, success,
                               IF success THEN EmptyStr ELSE <<"error", service, 0, n>>)
         IN  /\ translation_log' = log_translation(translation_log, entry)
             /\ appended' = Append(appended, entry)
    /\ UNCHANGED <<config, circuit_breaker, now, nsaves, lastCheck>>
    /\ UNCHANGED callVars
    /\ UNCHANGED <<sleeps, frameVars>>

\* __init__: empty log, empty circuit breaker, load_config()
InitImports(raws, available, tenacity) ==
    /\ \E raw \in raws : config = load_config(raw) /\ config_json = raw
    /\ DEEP_TRANSLATOR_AVAILABLE \in available
    /\ TENACITY_AVAILABLE \in tenacity
    /\ dlg = NoDialog
    /\ translation_log = <<>>
    /\ circuit_breaker = EmptyCB
    /\ now = 0
    /\ pc = "idle"
    /\ text = "-"
    /\ attempt = 0
    /\ idx = 1
    /\ last_exception = None
    /\ outcome = NoOutcome
    /\ calls = <<>>
    /\ log0 = <<>>
    /\ cb0 = EmptyCB
    /\ ncalls = 0
    /\ nsaves = 0
    /\ lastCheck = NoCheck
    /\ appended = <<>>
    /\ sleeps = <<>>
    /\ bpc = "idle"
    /\ items = <<>>
    /\ row = 1
    /\ translated_count = 0
    /\ failed_count = 0
    /\ consecutive_failures = 0
    /\ current_delay = config.base_delay
    /\ canceled = FALSE
    /\ events = <<>>
    /\ stats = NoStats
    /\ exported = NoFile

\* the tenacity package is not installed: translate_text takes the simple loop
InitFrom(raws, available) == InitImports(raws, available, {FALSE})

\* the deep_translator package is installed
InitWith(raws) == InitFrom(raws, {TRUE})

Init == InitWith(KnownConfigs)

Next ==
    \/ TranslateNext
    \/ SaveTranslationConfig
    \/ ClearTranslationLog

Spec == Init /\ [][Next]_vars

(***************************************************************************)
(* The circuit breaker driven by its caller.  config.json names no service *)
(* list here, so both lists are the default.                               *)
(***************************************************************************)
RawConfigsCB ==
    [enabled_services : {<<>>}, priority_order : {<<>>},
     retry_count : {1},
     base_delay : {<<>>},
     circuit_breaker_threshold : 1..MaxThreshold,
     circuit_breaker_timeout : 1..MaxCooldown]

InitCB == InitWith(RawConfigsCB)

NextCB ==
    \/ IsEndpointDisabled
    \/ RecordEndpointFailure
    \/ Tick

SpecCB == InitCB /\ [][NextCB]_vars

(***************************************************************************)
(* Translations with failures recorded in the circuit breaker in between.  *)
(***************************************************************************)
RawConfigsGate ==
    [enabled_services : {<<>>}, priority_order : {<<>>},
     retry_count : 1..MaxRetry,
     base_delay : {<<>>},
     circuit_breaker_threshold : 1..MaxThreshold,
     circuit_breaker_timeout : {MaxCooldown}]

InitGate == InitWith(RawConfigsGate)

NextGate ==
    \/ TranslateNext
    \/ RecordEndpointFailure
    \/ Tick

SpecGate == InitGate /\ [][NextGate]_vars

(***************************************************************************)
(* Translations between failures recorded and checks made: google alone,  *)
(* one attempt per call.                                                   *)
(***************************************************************************)
RawConfigsBreaker ==
    [enabled_services : {<<(<<"google">>)>>}, priority_order : {<<>>},
     retry_count : {1},
     base_delay : {<<>>},
     circuit_breaker_threshold : {MaxThreshold},
     circuit_breaker_timeout : {MaxCooldown}]

InitBreaker == InitWith(RawConfigsBreaker)

NextBreaker ==
    \/ StartTranslate
    \/ CoreInvokeSuccess
    \/ CoreInvokeFailure
    \/ CoreRaiseFinal
    \/ Return
    \/ IsEndpointDisabled
    \/ RecordEndpointFailure
    \/ Tick

SpecBreaker == InitBreaker /\ [][NextBreaker]_vars

(***************************************************************************)
(* The log driven by its caller.                                           *)
(***************************************************************************)
RawConfigsLog ==
    [enabled_services : {<<>>}, priority_order : {<<>>},
     retry_count : {1},
     base_delay : {<<>>},
     circuit_breaker_threshold : {MaxThreshold},
     circuit_breaker_timeout : {MaxCooldown}]

InitLog == InitWith(RawConfigsLog)

NextLog ==
    \/ LogTranslation
    \/ ClearTranslationLog

SpecLog == InitLog /\ [][NextLog]_vars

(***************************************************************************)
(* One translate_text call with many retries: both services or google      *)
(* alone, retry_count up to MaxRetryWaits.                                 *)
(***************************************************************************)
RawConfigsRetry ==
    [enabled_services : {<<>>, <<(<<"google">>)>>}, priority_order : {<<>>},
     retry_count : 1..MaxRetryWaits,
     base_delay : {<<>>},
     circuit_breaker_threshold : {MaxThreshold},
     circuit_breaker_timeout : {MaxCooldown}]

InitRetry == InitWith(RawConfigsRetry)

NextRetry == TranslateNext

SpecRetry == InitRetry /\ [][NextRetry]_vars

(***************************************************************************)
(* One batch: both services, google alone, or no service that is both      *)
(* enabled and in the priority order; with and without deep_translator.    *)
(***************************************************************************)
RawServiceLists ==
    {<< <<>>, <<>> >>,
     << <<(<<"google">>)>>, <<>> >>,
     << <<(<<"google">>)>>, <<(<<"mymemory">>)>> >>}

\* base_delay in config.json: the smallest and the largest value the
\* configuration dialog writes, and max_delay itself (a file edited by hand)
RawDelays == {R(1, 10), R(30, 1), R(60, 1)}

RawConfigsBatch ==
    {[enabled_services |-> l[1], priority_order |-> l[2],
      retry_count |-> r,
      base_delay |-> b,
      circuit_breaker_threshold |-> MaxThreshold,
      circuit_breaker_timeout |-> MaxCooldown] :
        l \in RawServiceLists, r \in 1..MaxRetry,
        b \in {<<>>} \cup {<<d>> : d \in RawDelays}}

InitBatch == InitFrom(RawConfigsBatch, BOOLEAN)

NextBatch ==
    \/ BatchNext
    \/ CoreNext

SpecBatch == InitBatch /\ [][NextBatch]_vars

(***************************************************************************)
(* One translate dialog, accepted, with the batch it runs.                 *)
(***************************************************************************)
RawConfigsDialog ==
    {[enabled_services |-> l[1], priority_order |-> l[2],
      retry_count |-> MaxRetry,
      base_delay |-> <<>>,
      circuit_breaker_threshold |-> MaxThreshold,
      circuit_breaker_timeout |-> MaxCooldown] : l \in RawServiceLists}

InitDialog == InitWith(RawConfigsDialog)

NextDialog ==
    \/ ShowTranslateDialog
    \/ ShowTranslateCellsDialog
    \/ DialogBatchStart
    \/ Cancel
    \/ BatchPollCanceled
    \/ BatchSkip
    \/ BatchCall
    \/ BatchItemSuccess
    \/ BatchItemFailure
    \/ BatchFinish
    \/ CoreNext
    \/ ShowTranslateDialogReturn
    \/ ShowTranslateCellsDialogReturn

SpecDialog == InitDialog /\ [][NextDialog]_vars

(***************************************************************************)
(* translate_text on either retry path: with tenacity installed (the       *)
(* decorator) and without it (the simple loop), one to six attempts, both  *)
(* services, google alone, or no service that gets invoked.                *)
(***************************************************************************)
RawConfigsEquiv ==
    {[enabled_services |-> l[1], priority_order |-> l[2],
      retry_count |-> r,
      base_delay |-> <<>>,
      circuit_breaker_threshold |-> MaxThreshold,
      circuit_breaker_timeout |-> MaxCooldown] :
        l \in RawServiceLists, r \in 1..MaxRetryWaits}

InitEquiv == InitImports(RawConfigsEquiv, {TRUE}, BOOLEAN)

NextEquiv ==
    \/ StartTranslate
    \/ CoreInvokeSuccess
    \/ CoreInvokeFailure
    \/ CoreRaiseRetry
    \/ CoreRaiseFinal
    \/ RetryingRaiseRetry
    \/ RetryingRaiseFinal
    \/ Return

SpecEquiv == InitEquiv /\ [][NextEquiv]_vars

(***************************************************************************)
(* The log and its reports.                                                *)
(***************************************************************************)
InitReport == InitWith(RawConfigsLog)

NextReport ==
    \/ LogOutcome
    \/ GetTranslationStats
    \/ ExportTranslationLog

SpecReport == InitReport /\ [][NextReport]_vars

(***************************************************************************)
(* Start-up from any config.json, also one that names services the enum   *)
(* lacks, and one translation with what load_config made of it.            *)
(***************************************************************************)
InitLoad == InitWith(RawConfigs)

NextLoad == TranslateNext

SpecLoad == InitLoad /\ [][NextLoad]_vars

(***************************************************************************)
(* The log cleared with entries in it and failures in the circuit breaker. *)
(***************************************************************************)
InitClear == InitWith(RawConfigsLog)

NextClear ==
    \/ LogOutcome
    \/ RecordEndpointFailure
    \/ GetTranslationStats
    \/ ClearTranslationLog

SpecClear == InitClear /\ [][NextClear]_vars

(***************************************************************************)
(* What the claims speak of.                                               *)
(***************************************************************************)
Last(s) == s[Len(s)]

\* the last n elements of s, all of s if it has no more
LastN(s, n) == IF Len(s) <= n THEN s ELSE SubSeq(s, Len(s) - n + 1, Len(s))

\* failed invocations of a service in the running call
FailedCalls(service) ==
    Cardinality({i \in 1..Len(calls) : calls[i].service = service /\ ~calls[i].ok})

\* failed invocations at a place of priority_order before invocation k
FailedAtBefore(position, k) ==
    Cardinality({i \in 1..(k - 1) : calls[i].position = position /\ ~calls[i].ok})

\* the log entry an invocation has to leave
EntryOf(c) ==
    LogEntry(c.at, text, IF c.ok THEN c.out ELSE EmptyStr, c.service, c.ok,
             IF c.ok THEN EmptyStr ELSE c.out)

EntriesOfCalls == [i \in 1..Len(calls) |-> EntryOf(calls[i])]

\* what the running call has added to the log
Added == SubSeq(translation_log, Len(log0) + 1, Len(translation_log))

AddedFor(service, success) ==
    Cardinality({i \in 1..Len(Added) :
                   Added[i].service = service /\ Added[i].success = success})

\* the places of priority_order whose service gets invoked
CallablePositions ==
    {j \in 1..Len(config.priority_order) : Callable(config.priority_order[j])}

\* invocations of a service, and of a place of priority_order, in the running call
CallsOf(service) ==
    Cardinality({i \in 1..Len(calls) : calls[i].service = service})

CallsAt(position) ==
    Cardinality({i \in 1..Len(calls) : calls[i].position = position})

PlacesOf(service) ==
    Cardinality({j \in CallablePositions : config.priority_order[j] = service})

\* the waits of the retry loop as the specification lists them
ExpectedWaits == <<1, 2, 4, 8, 10, 10, 10, 10, 10, 10>>

\* the events of one kind, and the item events (one per item gone through)
EventsOf(kinds) == LET wanted(ev) == ev.e \in kinds IN SelectSeq(events, wanted)

ItemEvents == EventsOf({"skip", "ok", "fail"})

\* the batch sleeps (pacing and backoff) among the sleeps
BatchSleeps == LET own(sl) == sl.kind \in {"pace", "backoff"} IN SelectSeq(sleeps, own)

\* the batch passed the readiness check and nobody cancelled it
Uncancelled == events # <<>> /\ EventsOf({"warning", "break"}) = <<>>

\* out holds exactly the known services of given, in the order of given
KeptInOrder(out, given) ==
    \E f \in [1..Len(out) -> 1..Len(given)] :
        /\ \A i, j \in 1..Len(out) : i < j => f[i] < f[j]
        /\ \A i \in 1..Len(out) : out[i] = given[f[i]]
        /\ {f[i] : i \in 1..Len(out)} = {j \in 1..Len(given) : given[j] \in Services}

\* the list config.json gives for a key; the list setdefault puts in for a
\* key the file lacks
GivenList(key) ==
    IF config_json[key] = <<>> THEN <<"google", "mymemory">> ELSE config_json[key][1]

\* the factors of the failure backoff as the specification lists them
ExpectedFactors == <<1, 2, 4, 8, 16, 16, 16, 16, 16, 16>>

(***************************************************************************)
(* C1.  translate_text returns the answer of the first service, in         *)
(* priority order, that succeeds, together with that service's name; once  *)
(* a service has succeeded no other service is invoked in the call.        *)
(***************************************************************************)
C1_FirstSuccessIsReturned ==
    /\ \A i \in 1..Len(calls) : calls[i].ok => (i = Len(calls) /\ pc = "ret")
    /\ (pc = "ret" /\ outcome.ok) =>
         /\ calls # <<>>
         /\ Last(calls).ok
         /\ outcome.result = Last(calls).out
         /\ outcome.service = Last(calls).service
         \* every callable place before it was tried in this pass, and failed
         /\ \A j \in CallablePositions :
              j < Last(calls).position =>
                \E i \in 1..(Len(calls) - 1) :
                    /\ calls[i].position = j
                    /\ calls[i].attempt = Last(calls).attempt
                    /\ ~calls[i].ok
    /\ (pc = "ret" /\ ~outcome.ok) => \A i \in 1..Len(calls) : ~calls[i].ok

\* a call returned the second service's answer after the first one failed
C1_Witness ==
    /\ pc = "ret"
    /\ outcome.ok
    /\ Len(calls) >= 2
    /\ outcome.service # calls[1].service

(***************************************************************************)
(* C2.  The list of services a translate_text call walks is never empty,   *)
(* whatever enabled_services and priority_order are.                       *)
(***************************************************************************)
C2_WalkedListNeverEmpty == pc = "core" => Eligible # <<>>

(***************************************************************************)
(* C3.  translate_text never invokes a service that the circuit breaker    *)
(* has disabled at that time (failures >= threshold, and less than the     *)
(* cooldown since the last failure).                                       *)
(***************************************************************************)
C3_NoDisabledServiceInvoked == \A i \in 1..Len(calls) : ~calls[i].disabled

(***************************************************************************)
(* C4.  When a service has used up its retries inside translate_text, a    *)
(* circuit-breaker failure is recorded for it: its failure count grows and *)
(* its last failure time is the time of the call.                          *)
(***************************************************************************)
C4_ExhaustionIsRecorded ==
    pc = "ret" =>
      \A service \in Services :
          FailedCalls(service) >= config.retry_count =>
            /\ FailureCount(circuit_breaker, service) > FailureCount(cb0, service)
            /\ circuit_breaker[service][2] = Last(calls).at

C7_OneEntryPerInvocation ==
    /\ pc # "idle" => translation_log = LastN(log0 \o EntriesOfCalls, LogCap)
    /\ \A A, B \in Services :
         (/\ pc = "ret"
          /\ A # B
          /\ config.priority_order = <<A, B>>
          /\ {A, B} \subseteq Range(config.enabled_services)
          /\ config.retry_count = 1
          /\ \A i \in 1..Len(calls) : calls[i].ok <=> calls[i].service = B)
         => /\ Len(calls) = 2
            /\ outcome.ok
            /\ outcome.service = B
            /\ outcome.result = calls[2].out
            /\ Len(Added) = 2
            /\ Added[1].service = A /\ ~Added[1].success
            /\ Added[1].error = calls[1].out /\ Added[1].target = EmptyStr
            /\ Added[2].service = B /\ Added[2].success
            /\ Added[2].target = calls[2].out /\ Added[2].error = EmptyStr

\* the scenario: [A, B], retry_count 1, A failed, B answered
C7_Witness ==
    /\ pc = "ret"
    /\ config.retry_count = 1
    /\ Len(config.priority_order) = 2
    /\ Len(calls) = 2
    /\ ~calls[1].ok
    /\ calls[2].ok
    /\ calls[1].service # calls[2].service
    /\ Len(translation_log) = Len(log0) + 2

(***************************************************************************)
(* C8.  is_endpoint_disabled(p) returns true exactly when p's failure      *)
(* count is at least the threshold and less than the cooldown has passed   *)
(* since p's last failure; otherwise (no failure recorded, count below the *)
(* threshold, cooldown over) it returns false.                             *)
(***************************************************************************)
C8_DisabledExactlyWhen ==
    [][\A endpoint \in Services :
         IsEndpointDisabledOn(endpoint) =>
            (lastCheck'.ret <=>
               /\ endpoint \in DOMAIN circuit_breaker
               /\ FailureCount(circuit_breaker, endpoint) >= config.circuit_breaker_threshold
               /\ now - circuit_breaker[endpoint][2] < config.circuit_breaker_timeout)]_vars

\* a check that answered true
C8_Witness == lastCheck.endpoint \in Services /\ lastCheck.ret

C10_LogKeepsTheLast1000 ==
    /\ Len(translation_log) <= LogCap
    /\ translation_log = LastN(appended, LogCap)

\* more than 1000 entries were appended: the oldest ones are gone
C10_Witness ==
    /\ Len(appended) > LogCap
    /\ Len(translation_log) = LogCap
    /\ translation_log[1] = appended[Len(appended) - LogCap + 1]

(***************************************************************************)
(* C11.  As claimed: within one translate_text call with retry_count r no  *)
(* service is invoked more than r times.                                   *)
(***************************************************************************)
C11_AtMostRPerProvider ==
    \A service \in Services : CallsOf(service) <= config.retry_count

(***************************************************************************)
(* C11, amended.  Within one translate_text call with retry_count r >= 1   *)
(* no place of priority_order is invoked more than r times, so a service   *)
(* listed once is invoked at most r times and one listed m times at most   *)
(* m*r times; the call makes at most r attempts, and when the last one     *)
(* fails the failure goes to the caller: the call ends after at most       *)
(* r * (number of eligible places) invocations, exactly that many when it  *)
(* fails.                                                                  *)
(***************************************************************************)
C11_AtMostRPerPlace ==
    /\ \A j \in CallablePositions : CallsAt(j) <= config.retry_count
    /\ \A service \in Services :
         CallsOf(service) <= config.retry_count * PlacesOf(service)
    /\ pc # "idle" => attempt < config.retry_count
    /\ Len(calls) <= config.retry_count * Len(Eligible)
    /\ (pc = "ret" /\ ~outcome.ok) =>
         /\ attempt = config.retry_count - 1
         /\ Len(calls) = config.retry_count * Len(Eligible)
         /\ \A i \in 1..Len(calls) : ~calls[i].ok

\* a call failed after two attempts on each of two places
C11_Witness ==
    /\ pc = "ret"
    /\ ~outcome.ok
    /\ config.retry_count = 2
    /\ Len(Eligible) = 2
    /\ Len(calls) = 4

(***************************************************************************)
(* C12.  The wait after failed attempt number n (from 0) and before the    *)
(* next attempt is min(10, 2^n) seconds: 1, 2, 4, 8, 10, 10, ...; there is *)
(* no wait after the last failed attempt.                                  *)
(***************************************************************************)
C12_RetryWaits ==
    pc # "idle" =>
      /\ Len(sleeps) = attempt
      /\ Len(sleeps) <= config.retry_count - 1
      /\ \A n \in 0..(Len(sleeps) - 1) :
           /\ sleeps[n + 1].kind = "retry"
           /\ sleeps[n + 1].seconds = <<ExpectedWaits[n + 1], 1>>

\* a call that failed for good after six attempts: five waits, the fifth capped
C12_Witness ==
    /\ pc = "ret"
    /\ ~outcome.ok
    /\ config.retry_count = 6
    /\ Len(sleeps) = 5
    /\ sleeps[5].seconds = <<10, 1>>
    /\ sleeps[4].seconds = <<8, 1>>

(***************************************************************************)
(* C13.  When every eligible service is exhausted translate_text fails     *)
(* with the error of the last failed invocation of that call: not an       *)
(* earlier one, not one of a previous call (and the generic "All           *)
(* translation services failed" when the call invoked nothing).            *)
(***************************************************************************)
C13_LastErrorIsRaised ==
    (pc = "ret" /\ ~outcome.ok) =>
       IF calls = <<>>
       THEN outcome.error = AllFailedMsg
       ELSE /\ ~Last(calls).ok
            /\ outcome.error = Last(calls).out
            /\ outcome.error = <<"error", Last(calls).service, ncalls, Len(calls)>>

\* the second call of a batch failed on both services
C13_Witness ==
    /\ pc = "ret"
    /\ ~outcome.ok
    /\ ncalls = 2
    /\ Len(calls) = 2
    /\ calls[1].service # calls[2].service
    /\ EventsOf({"fail"}) # <<>>

(***************************************************************************)
(* C14.  A total failure of one item never ends the batch: the failure is  *)
(* counted for that item alone and the batch goes on with the next item;   *)
(* every item of an uncancelled batch is gone through exactly once.        *)
(***************************************************************************)
C14_FailureDoesNotAbort ==
    /\ (events # <<>> /\ Last(events).e = "fail") =>
         /\ bpc = "poll"
         /\ row = Last(events).item + 1
         /\ failed_count = Len(EventsOf({"fail"}))
    /\ (bpc = "done" /\ Uncancelled) =>
         /\ Len(ItemEvents) = Len(items)
         /\ \A i \in 1..Len(items) :
              /\ ItemEvents[i].item = i
              /\ ItemEvents[i].e = "skip" <=> Strip(items[i]) = ""
         /\ Len(EventsOf({"call"})) = Len(EventsOf({"ok", "fail"}))
         /\ ncalls = Len(EventsOf({"call"}))
         /\ failed_count = Len(EventsOf({"fail"}))
         /\ translated_count = Len(EventsOf({"ok"}))

\* the first item failed, the second was translated, the batch ended
C14_Witness ==
    /\ bpc = "done"
    /\ Uncancelled
    /\ Len(items) >= 2
    /\ ItemEvents[1].e = "fail"
    /\ ItemEvents[2].e = "ok"
    /\ failed_count = 1

(***************************************************************************)
(* C15.  When no service is both enabled and in the priority order, the    *)
(* batch fails at once: no item is processed and no retry wait or pacing   *)
(* delay is slept.                                                         *)
(***************************************************************************)
C15_NoEligibleFailsAtOnce ==
    Eligible = <<>> =>
       /\ ncalls = 0
       /\ sleeps = <<>>
       /\ EventsOf({"call", "fail"}) = <<>>

(***************************************************************************)
(* C16.  As claimed: after a translated item the pacing sleep is taken     *)
(* from current_delay as it was before the decay, and lies between that    *)
(* value and 1.1 times that value.                                         *)
(***************************************************************************)
C16_SleepBeforeDecay ==
    \A k \in 1..Len(events) :
        events[k].e = "ok" =>
           /\ RLeq(events[k].d0, events[k].slept)
           /\ RLeq(events[k].slept, RMul(events[k].d0, <<11, 10>>))

(***************************************************************************)
(* C16, amended.  After a translated item consecutive_failures is reset to *)
(* 0 and current_delay becomes max(base_delay, current_delay * 0.9) first; *)
(* the pacing sleep is then taken from the decayed value and lies between  *)
(* it and 1.1 times it.                                                    *)
(***************************************************************************)
C16_SleepAfterDecay ==
    /\ \A k \in 1..Len(events) :
         events[k].e = "ok" =>
            /\ events[k].f1 = 0
            /\ events[k].d1 = RMax(config.base_delay, RMul(events[k].d0, <<9, 10>>))
            /\ RLeq(events[k].d1, events[k].slept)
            /\ RLeq(events[k].slept, RMul(events[k].d1, <<11, 10>>))
    /\ (events # <<>> /\ Last(events).e = "ok") =>
         /\ consecutive_failures = 0
         /\ current_delay = Last(events).d1
         /\ Last(sleeps) = PaceSleep(Last(events).slept)

\* base_delay 8: a failure made the delay 12, the translated item after it
\* made it 10.8 and slept 11.88
C16_Witness ==
    \E k \in 1..Len(events) :
        /\ events[k].e = "ok"
        /\ events[k].d0 = <<12, 1>>
        /\ events[k].d1 = <<54, 5>>
        /\ events[k].slept = <<297, 25>>

(***************************************************************************)
(* C17.  After an item failed on all services consecutive_failures grows   *)
(* by 1, the batch sleeps min(60, base_delay * 2^min(consecutive_failures  *)
(* - 1, 4)) with the new count (base_delay times 1, 2, 4, 8, 16, 16, ...   *)
(* capped at 60), and current_delay becomes min(60, current_delay * 1.5).  *)
(***************************************************************************)
C17_FailureBackoff ==
    /\ \A k \in 1..Len(events) :
         events[k].e = "fail" =>
            /\ events[k].f1 = events[k].f0 + 1
            /\ events[k].slept =
                 RMin(<<60, 1>>,
                      RMul(config.base_delay, <<ExpectedFactors[events[k].f1], 1>>))
            /\ events[k].d1 = RMin(<<60, 1>>, RMul(events[k].d0, <<3, 2>>))
    /\ (events # <<>> /\ Last(events).e = "fail") =>
         /\ consecutive_failures = Last(events).f1
         /\ current_delay = Last(events).d1
         /\ Last(sleeps) = BackoffSleep(Last(events).slept)

\* base_delay 0.1: the sixth failure in a row waits 1.6, as the fifth did
C17_Witness ==
    \E k \in 1..Len(events) :
        /\ events[k].e = "fail"
        /\ events[k].f1 = 6
        /\ config.base_delay = <<1, 10>>
        /\ events[k].slept = <<8, 5>>

(***************************************************************************)
(* C18.  Cancellation is asked once per item, before the item is           *)
(* processed; once it is seen set no service is invoked and nothing is     *)
(* slept any more, and what the items before have given is kept; an item   *)
(* whose processing has started is finished, pacing sleep included.        *)
(***************************************************************************)
C18_CancelPolledOncePerItem ==
    /\ LET polls == EventsOf({"poll"})
       IN  \A i \in 1..Len(polls) : polls[i].item = i
    /\ \A k \in 1..Len(events) :
         /\ events[k].e \in {"call", "skip", "break"} =>
              /\ k > 1
              /\ events[k - 1].e = "poll"
              /\ events[k - 1].item = events[k].item
         /\ events[k].e = "break" =>
              /\ \E m \in 1..(k - 1) : events[m].e = "cancel"
              /\ \A m \in (k + 1)..Len(events) : events[m].e \in {"complete", "nothing"}
              /\ pc = "idle"
              /\ bpc \in {"summary", "done"}
         /\ events[k].e = "call" =>
              \/ bpc = "call" /\ row = events[k].item
              \/ \E m \in (k + 1)..Len(events) :
                    /\ events[m].e \in {"ok", "fail"}
                    /\ events[m].item = events[k].item
                    /\ \A n \in (k + 1)..(m - 1) : events[n].e = "cancel"
    /\ Len(BatchSleeps) = Len(EventsOf({"ok", "fail"}))
    /\ translated_count = Len(EventsOf({"ok"}))
    /\ failed_count = Len(EventsOf({"fail"}))
    /\ bpc \in {"summary", "done"} => pc = "idle"

\* Cancel was pressed while the first item was being translated: the item
\* was finished and slept for, the next poll left the loop
C18_Witness ==
    /\ bpc = "done"
    /\ Len(items) >= 2
    /\ Len(events) >= 6
    /\ events[2].e = "call"
    /\ events[3].e = "cancel"
    /\ events[4].e = "ok"
    /\ events[5].e = "poll"
    /\ events[6].e = "break"
    /\ translated_count = 1
    /\ Len(sleeps) = 1

(***************************************************************************)
(* C19.  get_translation_stats returns, for any log, total = number of     *)
(* entries, successful = number of entries with success true, failed =     *)
(* total - successful, and a success rate of 0 for the empty log and 100   *)
(* when every entry succeeded; it leaves the log unchanged.                *)
(***************************************************************************)
C19_StatsOfTheLog ==
    [][GetTranslationStats =>
         LET good == {i \in 1..Len(translation_log) : translation_log[i].success}
             bad == {i \in 1..Len(translation_log) : ~translation_log[i].success}
         IN  /\ translation_log' = translation_log
             /\ stats'.total = Len(translation_log)
             /\ stats'.successful = Cardinality(good)
             /\ stats'.failed = Cardinality(bad)
             /\ stats'.failed = stats'.total - stats'.successful
             /\ translation_log = <<>> => stats'.success_rate = <<0, 1>>
             /\ (translation_log # <<>> /\ bad = {}) => stats'.success_rate = <<100, 1>>
             /\ (translation_log # <<>> /\ good = {}) => stats'.success_rate = <<0, 1>>
             /\ stats'.success_rate[1] * stats'.total
                  = 100 * stats'.successful * stats'.success_rate[2]]_vars

\* statistics of a log of three entries that all succeeded
C19_Witness ==
    /\ stats.total = 3
    /\ stats.successful = 3
    /\ stats.failed = 0
    /\ stats.success_rate = <<100, 1>>
    /\ Len(translation_log) = 3

(***************************************************************************)
(* C20.  Exporting a log of n entries writes exactly n records in the      *)
(* order of the log, one per entry, in both formats; the CSV file has one  *)
(* header row first and then exactly n data rows.                          *)
(***************************************************************************)
C20_ExportKeepsOrder ==
    [][(ExportTranslationLog /\ exported' # NoFile) =>
         LET n == Len(translation_log)
             recs == exported'.records
         IN  /\ translation_log' = translation_log
             /\ exported'.format = "json" =>
                  /\ Len(recs) = n
                  /\ \A i \in 1..n :
                       /\ recs[i].service = translation_log[i].service
                       /\ recs[i].success = translation_log[i].success
                       /\ recs[i].source = translation_log[i].source
                       /\ recs[i].target = translation_log[i].target
                       /\ recs[i].error = translation_log[i].error
                       /\ recs[i].timestamp = translation_log[i].timestamp
             /\ exported'.format = "csv" =>
                  /\ Len(recs) = n + 1
                  /\ recs[1] = <<"Timestamp", "Service", "Status", "Source Text",
                                 "Target Text", "Error">>
                  /\ \A i \in 1..n :
                       /\ recs[i + 1][2] = translation_log[i].service
                       /\ recs[i + 1][3] = "SUCCESS" <=> translation_log[i].success
                       /\ recs[i + 1][3] = "FAILED" <=> ~translation_log[i].success
                       /\ recs[i + 1][4] = translation_log[i].source
                       /\ recs[i + 1][5] = translation_log[i].target
                       /\ recs[i + 1][6] = translation_log[i].error]_vars

\* a CSV export of three entries, a failed one between two of another service
C20_Witness ==
    /\ exported # NoFile
    /\ exported.format = "csv"
    /\ Len(exported.records) = 4
    /\ exported.records[2][2] # exported.records[3][2]
    /\ exported.records[2][3] = "SUCCESS"
    /\ exported.records[3][3] = "FAILED"

(***************************************************************************)
(* C21.  clear_translation_log empties the log whatever it holds:          *)
(* afterwards the log has no entry and the statistics of it are total 0    *)
(* and success rate 0, while the circuit breaker and the configuration     *)
(* are as before.                                                          *)
(***************************************************************************)
C21_ClearEmptiesOnlyTheLog ==
    [][ClearTranslationLog =>
         /\ Len(translation_log') = 0
         /\ get_translation_stats(translation_log').total = 0
         /\ get_translation_stats(translation_log').successful = 0
         /\ get_translation_stats(translation_log').failed = 0
         /\ get_translation_stats(translation_log').success_rate = <<0, 1>>
         /\ DOMAIN get_translation_stats(translation_log').by_service = {}
         /\ circuit_breaker' = circuit_breaker
         /\ config' = config]_vars

\* the log is empty after statistics of two entries, one of them a success,
\* were shown, and the circuit breaker still holds a failure
C21_Witness ==
    /\ translation_log = <<>>
    /\ stats # NoStats
    /\ stats.total = 2
    /\ stats.successful = 1
    /\ DOMAIN circuit_breaker # {}

(***************************************************************************)
(* C22.  After load_config, enabled_services and priority_order each hold  *)
(* only known services, in the order the file gave them, and neither is    *)
(* empty: a list the clean-up leaves without a service (an empty list of   *)
(* the file included) is the single default service, google.              *)
(***************************************************************************)
C22_SanitizedLists ==
    \A key \in {"enabled_services", "priority_order"} :
        /\ Range(config[key]) \subseteq Services
        /\ config[key] # <<>>
        /\ IF \E j \in 1..Len(GivenList(key)) : GivenList(key)[j] \in Services
           THEN KeptInOrder(config[key], GivenList(key))
           ELSE config[key] = <<"google">>

\* the file has an empty enabled_services and a priority_order with a
\* service the enum lacks, and a translation by google has come back
C22_Witness ==
    /\ config_json.enabled_services = << <<>> >>
    /\ config_json.priority_order = << <<"deepl", "google">> >>
    /\ config.enabled_services = <<"google">>
    /\ config.priority_order = <<"google">>
    /\ pc = "ret"
    /\ outcome.ok

(***************************************************************************)
(* C23.  Whatever the configuration dialog has stored since start-up (for  *)
(* instance a save with every service unchecked), each translation finds  *)
(* enabled_services and priority_order holding known services only and     *)
(* neither of them empty.                                                  *)
(***************************************************************************)
C23_EachTranslationSeesValidLists ==
    pc = "core" =>
      \A key \in {"enabled_services", "priority_order"} :
          /\ Range(config[key]) \subseteq Services
          /\ config[key] # <<>>

(***************************************************************************)
(* C24.  record_endpoint_failure(p) creates p's state on the first call,   *)
(* raises p's failure count by exactly 1 and sets p's last failure time to *)
(* now, and leaves the state of every other service as it was; nothing     *)
(* lowers p's failure count except the check that finds p at or over the   *)
(* threshold with the cooldown over, and a translation p answers does not. *)
(***************************************************************************)
C24_RecordFailureOnly ==
    [][\A p \in Services :
         /\ RecordEndpointFailureOn(p) =>
              /\ p \in DOMAIN circuit_breaker'
              /\ FailureCount(circuit_breaker', p) = FailureCount(circuit_breaker, p) + 1
              /\ circuit_breaker'[p][2] = now
              /\ \A q \in Services \ {p} :
                    /\ q \in DOMAIN circuit_breaker' <=> q \in DOMAIN circuit_breaker
                    /\ q \in DOMAIN circuit_breaker => circuit_breaker'[q] = circuit_breaker[q]
         /\ FailureCount(circuit_breaker', p) < FailureCount(circuit_breaker, p) =>
              /\ IsEndpointDisabledOn(p)
              /\ FailureCount(circuit_breaker, p) >= config.circuit_breaker_threshold
              /\ now - circuit_breaker[p][2] >= config.circuit_breaker_timeout
              /\ FailureCount(circuit_breaker', p) = 0
         /\ (pc = "core" /\ pc' = "ret" /\ outcome'.ok /\ outcome'.service = p) =>
              FailureCount(circuit_breaker', p) = FailureCount(circuit_breaker, p)]_vars

\* a service with two failures on record, the second later than the first,
\* has answered a translation, and the other service has one failure
C24_Witness ==
    /\ pc = "ret"
    /\ outcome.ok
    /\ FailureCount(circuit_breaker, outcome.service) = 2
    /\ circuit_breaker[outcome.service][2] > 0
    /\ \E q \in Services \ {outcome.service} : FailureCount(circuit_breaker, q) = 1

(***************************************************************************)
(* C25.  The state of a service is cleared (failure count back to 0) once  *)
(* the cooldown has passed since its last failure, also when its failure   *)
(* count was still below the threshold: failures older than the cooldown   *)
(* do not add up with new ones to disable the service.                     *)
(***************************************************************************)
C25_ClearedAlsoBelowThreshold ==
    (lastCheck.endpoint \in Services /\ lastCheck.elapsed) => lastCheck.left = 0

(***************************************************************************)
(* C26.  Throughout a batch, whatever items succeed and fail and for any   *)
(* base_delay up to 60, base_delay <= current_delay <= 60 and              *)
(* consecutive_failures >= 0, and every wait after a failure lies between  *)
(* base_delay and 60.                                                      *)
(***************************************************************************)
C26_PacingStaysInBounds ==
    /\ RLeq(config.base_delay, current_delay)
    /\ RLeq(current_delay, <<60, 1>>)
    /\ consecutive_failures >= 0
    /\ \A k \in 1..Len(sleeps) :
         sleeps[k].kind = "backoff" =>
            /\ RLeq(config.base_delay, sleeps[k].seconds)
            /\ RLeq(sleeps[k].seconds, <<60, 1>>)
    /\ \A k \in 1..Len(events) :
         events[k].e \in {"ok", "fail"} =>
            /\ RLeq(config.base_delay, events[k].d1)
            /\ RLeq(events[k].d1, <<60, 1>>)
            /\ events[k].f1 >= 0

\* base_delay 30: after three failures in a row the delay has grown to the
\* cap (45, 60, 60) and the waits were 30, 60, 60; a success then brings the
\* delay down to 54
C26_Witness ==
    /\ config.base_delay = <<30, 1>>
    /\ failed_count = 3
    /\ translated_count = 1
    /\ current_delay = <<54, 1>>
    /\ consecutive_failures = 0
    /\ \E k \in 1..Len(sleeps) : sleeps[k] = BackoffSleep(<<30, 1>>)
    /\ \E k \in 1..Len(sleeps) : sleeps[k] = BackoffSleep(<<60, 1>>)
    /\ \E k \in 1..Len(events) : events[k].e = "fail" /\ events[k].d0 = <<60, 1>>

(***************************************************************************)
(* C27.  A cell whose text is empty or blank is skipped: no service is     *)
(* invoked for it, nothing is logged or slept, and current_delay,          *)
(* consecutive_failures and the two counters stay as they are; when a      *)
(* batch that was not cancelled ends, translated + failed + skipped is the *)
(* number of items.                                                        *)
(***************************************************************************)
C27_EmptyCellsAreSkipped ==
    /\ [][BatchSkip =>
            /\ UNCHANGED <<translation_log, appended, sleeps, calls, ncalls, pc>>
            /\ UNCHANGED <<current_delay, consecutive_failures, translated_count,
                           failed_count>>]_vars
    /\ [](/\ \A k \in 1..Len(events) :
              /\ events[k].e = "skip" =>
                   /\ Strip(items[events[k].item]) = ""
                   /\ events[k].d1 = events[k].d0
                   /\ events[k].f1 = events[k].f0
                   /\ events[k].slept = <<0, 1>>
              /\ events[k].e \in {"ok", "fail"} => Strip(items[events[k].item]) # ""
           /\ Len(BatchSleeps) = translated_count + failed_count
           /\ (bpc = "done" /\ Uncancelled) =>
                 translated_count + failed_count + Len(EventsOf({"skip"})) = Len(items))

\* a batch of three cells has ended: one translated, one blank, one failed
C27_Witness ==
    /\ bpc = "done"
    /\ Uncancelled
    /\ Len(items) = 3
    /\ Strip(items[2]) = ""
    /\ translated_count = 1
    /\ failed_count = 1
    /\ Len(EventsOf({"skip"})) = 1
    /\ Len(BatchSleeps) = 2

(***************************************************************************)
(* C28.  The service choice of a translate dialog is for the run only:     *)
(* when the batch started from the column dialog or from the cells dialog  *)
(* has returned, priority_order and enabled_services are, in memory and as *)
(* config.json gives them, what they were before the dialog was opened.    *)
(***************************************************************************)
C28_ServiceChoiceIsTemporary ==
    (dlg # NoDialog /\ dlg.stage = "returned") =>
       /\ config.priority_order = dlg.config0.priority_order
       /\ config.enabled_services = dlg.config0.enabled_services
       /\ load_config(config_json).priority_order = load_config(dlg.json0).priority_order
       /\ load_config(config_json).enabled_services = load_config(dlg.json0).enabled_services

(***************************************************************************)
(* C29.  In a batch started from a translate dialog the service chosen in  *)
(* the dialog is the first one invoked for every non-empty item when       *)
(* fallback is on, and the only one ever invoked when fallback is off; in  *)
(* both modes every non-empty item has at least one service invoked.       *)
(***************************************************************************)
C29_ChosenServiceInvokedFirst ==
    (dlg # NoDialog /\ bpc = "call" /\ pc = "ret") =>
       /\ calls # <<>>
       /\ calls[1].service = dlg.service
       /\ ~dlg.fallback => \A i \in 1..Len(calls) : calls[i].service = dlg.service


(***************************************************************************)
(* C30.  The decorator-based retry path and the simple retry loop behind   *)
(* translate_text behave alike: whichever of the two runs, what a call     *)
(* does is the same function of retry_count (>= 1) and of the outcomes of  *)
(* the provider invocations.  The invocations go round the invoked places  *)
(* of priority_order, attempt after attempt, and stop at the first         *)
(* success; the log gets one entry per invocation; the waits between the   *)
(* attempts are 1, 2, 4, 8, 10, 10 seconds; the call returns the result of *)
(* the success, or raises the error of the last invocation after           *)
(* retry_count attempts (the generic error when nothing was invoked).      *)
(***************************************************************************)
C30_RetryPathsEquivalent ==
    LET k == Cardinality(CallablePositions)
        L == Len(calls)
        place(i) == IF k = 0 THEN 0 ELSE ((i - 1) % k) + 1
        \* the attempts begun: one, and one more per round of failures
        begun == IF k = 0 THEN attempt + 1
                 ELSE IF L = 0 THEN 1
                 ELSE IF pc = "core" /\ L % k = 0 /\ idx = 1 THEN (L \div k) + 1
                 ELSE ((L - 1) \div k) + 1
    IN  pc # "idle" =>
          /\ k = 0 => L = 0
          /\ \A i \in 1..L :
               /\ Cardinality({j \in CallablePositions : j < calls[i].position})
                    = place(i) - 1
               /\ calls[i].ok => i = L
          /\ translation_log = LastN(log0 \o EntriesOfCalls, LogCap)
          /\ attempt + 1 = begun
          /\ begun <= config.retry_count
          /\ sleeps = [n \in 1..(begun - 1) |-> RetrySleep(ExpectedWaits[n])]
          /\ pc = "ret" =>
               IF L > 0 /\ calls[L].ok
               THEN outcome = ReturnValue(calls[L].out, calls[L].service)
               ELSE /\ outcome = Raised(IF L = 0 THEN AllFailedMsg ELSE calls[L].out)
                    /\ begun = config.retry_count
                    /\ L = k * config.retry_count

\* the decorator path gave up after six attempts on two services: twelve
\* invocations, five waits
C30_Witness ==
    /\ TENACITY_AVAILABLE
    /\ pc = "ret"
    /\ ~outcome.ok
    /\ config.retry_count = 6
    /\ Len(calls) = 12
    /\ Len(sleeps) = 5
    /\ sleeps[5] = RetrySleep(10)

====
